---- MODULE Spec2Model ----
(***************************************************************************)
(* Model of compress-html.ts: the generated-identifier classifier, the     *)
(* structural signature, the badge extractor, the content-aware            *)
(* deduplication of repeated siblings and the compress pipeline that       *)
(* drives them.                                                            *)
(*                                                                         *)
(* A string is a sequence of one-character strings, so that the regular    *)
(* expressions, split, join, trim and sort of the source are computed on   *)
(* characters.                                                             *)
(***************************************************************************)
EXTENDS Integers, Sequences, FiniteSets, TLC

\* ------------------------------------------------------------------------
\* Characters and strings
\* ------------------------------------------------------------------------

LowerLetters == <<"a","b","c","d","e","f","g","h","i","j","k","l","m","n","o","p","q","r","s","t","u","v","w","x","y","z">>

UpperLetters == <<"A","B","C","D","E","F","G","H","I","J","K","L","M","N","O","P","Q","R","S","T","U","V","W","X","Y","Z">>

\* The characters of the model in ascending UTF-16 code unit order.
CharOrder == <<"\n"," ","(",")","-","0","1","2","3","4","5","6","7","8","9","A","B","C","D","E","F","G","H","I","J","K","L","M","N","O","P","Q","R","S","T","U","V","W","X","Y","Z","_","a","b","c","d","e","f","g","h","i","j","k","l","m","n","o","p","q","r","s","t","u","v","w","x","y","z","|">>

Range(s) == { s[i] : i \in DOMAIN s }

DigitChars == {"0","1","2","3","4","5","6","7","8","9"}

LetterChars == Range(LowerLetters) \cup Range(UpperLetters)

AlnumChars == LetterChars \cup DigitChars

HexChars == DigitChars \cup {"a","b","c","d","e","f","A","B","C","D","E","F"}

VowelChars == {"a","e","i","o","u","y","A","E","I","O","U","Y"}

ConsonantChars == LetterChars \ VowelChars

DelimChars == {"-","_"}

WhitespaceChars == {" ","\n","\t","\r"}

CharCode(c) == CHOOSE i \in DOMAIN CharOrder : CharOrder[i] = c

ToLowerChar(c) ==
    IF \E i \in DOMAIN UpperLetters : UpperLetters[i] = c
    THEN LowerLetters[CHOOSE i \in DOMAIN UpperLetters : UpperLetters[i] = c]
    ELSE c

toLowerCase(s) == [ i \in DOMAIN s |-> ToLowerChar(s[i]) ]

Tail2(s, i) == SubSeq(s, i, Len(s))

\* s matches /^p/i for a lower-case literal p
StartsWithCI(s, p) ==
    /\ Len(s) >= Len(p)
    /\ \A i \in DOMAIN p : ToLowerChar(s[i]) = p[i]

\* every character of s from position i on is in cls, and there is at least one
AllFrom(s, i, cls) ==
    /\ Len(s) >= i
    /\ \A j \in i..Len(s) : s[j] \in cls

\* s contains n consecutive characters of cls
HasRun(s, n, cls) ==
    \E i \in 1..(Len(s) - n + 1) : \A j \in i..(i + n - 1) : s[j] \in cls

CountIn(s, cls) == Cardinality({ i \in DOMAIN s : s[i] \in cls })

\* String.prototype.split on a one-character separator class
RECURSIVE Split(_, _)
Split(s, seps) ==
    IF \A i \in DOMAIN s : s[i] \notin seps
    THEN << s >>
    ELSE LET i == CHOOSE k \in DOMAIN s :
                     /\ s[k] \in seps
                     /\ \A j \in 1..(k - 1) : s[j] \notin seps
         IN  << SubSeq(s, 1, i - 1) >> \o Split(SubSeq(s, i + 1, Len(s)), seps)

\* String.prototype.split(/\s+/): runs of whitespace are one separator
RECURSIVE SplitWs(_)
SplitWs(s) ==
    IF \A i \in DOMAIN s : s[i] \notin WhitespaceChars
    THEN << s >>
    ELSE LET i == CHOOSE k \in DOMAIN s :
                     /\ s[k] \in WhitespaceChars
                     /\ \A j \in 1..(k - 1) : s[j] \notin WhitespaceChars
             e == CHOOSE k \in i..Len(s) :
                     /\ \A j \in i..k : s[j] \in WhitespaceChars
                     /\ (k = Len(s) \/ s[k + 1] \notin WhitespaceChars)
         IN  << SubSeq(s, 1, i - 1) >> \o SplitWs(SubSeq(s, e + 1, Len(s)))

NonEmpty(w) == Len(w) > 0

\* Array.prototype.join
RECURSIVE Join(_, _)
Join(parts, sep) ==
    IF Len(parts) = 0 THEN << >>
    ELSE IF Len(parts) = 1 THEN parts[1]
    ELSE parts[1] \o sep \o Join(Tail(parts), sep)

\* String.prototype.trim
trim(s) ==
    IF \A i \in DOMAIN s : s[i] \in WhitespaceChars
    THEN << >>
    ELSE LET a == CHOOSE k \in DOMAIN s :
                     /\ s[k] \notin WhitespaceChars
                     /\ \A j \in 1..(k - 1) : s[j] \in WhitespaceChars
             b == CHOOSE k \in DOMAIN s :
                     /\ s[k] \notin WhitespaceChars
                     /\ \A j \in (k + 1)..Len(s) : s[j] \in WhitespaceChars
         IN  SubSeq(s, a, b)

\* a < b in the default Array.prototype.sort order (UTF-16 code units)
StrLess(a, b) ==
    \/ /\ Len(a) < Len(b)
       /\ \A i \in DOMAIN a : a[i] = b[i]
    \/ \E k \in (DOMAIN a) \cap (DOMAIN b) :
          /\ \A i \in 1..(k - 1) : a[i] = b[i]
          /\ CharCode(a[k]) < CharCode(b[k])

\* Array.prototype.sort() of a list of strings (stable insertion of each
\* element after the elements that are not greater)
RECURSIVE SortStrings(_)
SortStrings(xs) ==
    IF Len(xs) <= 1 THEN xs
    ELSE LET rest == SortStrings(SubSeq(xs, 1, Len(xs) - 1))
             x    == xs[Len(xs)]
             k    == Cardinality({ i \in DOMAIN rest : ~StrLess(x, rest[i]) })
         IN  SubSeq(rest, 1, k) \o << x >> \o SubSeq(rest, k + 1, Len(rest))

\* ------------------------------------------------------------------------
\* Generated identifier detection
\* ------------------------------------------------------------------------

\* The run of consonants is not looked at.
isWordLikeAnyConsonantRun(segment) ==
    IF Len(segment) < 2 THEN FALSE
    ELSE IF CountIn(segment, DigitChars) > CountIn(segment, LetterChars) THEN FALSE
    ELSE IF \A i \in DOMAIN segment : segment[i] \notin VowelChars THEN FALSE
    ELSE IF \E i \in 1..(Len(segment) - 2) :
                /\ segment[i] # "\n"
                /\ segment[i + 1] = segment[i]
                /\ segment[i + 2] = segment[i] THEN FALSE
    ELSE TRUE

isWordLike(segment) ==
    IF Len(segment) < 2 THEN FALSE
    ELSE IF CountIn(segment, DigitChars) > CountIn(segment, LetterChars) THEN FALSE
    ELSE IF \A i \in DOMAIN segment : segment[i] \notin VowelChars THEN FALSE
    ELSE IF \E i \in 1..(Len(segment) - 2) :
                /\ segment[i] # "\n"
                /\ segment[i + 1] = segment[i]
                /\ segment[i + 2] = segment[i] THEN FALSE
    ELSE IF HasRun(segment, 4, ConsonantChars) THEN FALSE
    ELSE TRUE

safeWords ==
    << <<"c","o","n","t","e","n","t">>,
       <<"m","a","i","n">>,
       <<"r","o","o","t">>,
       <<"w","r","a","p","p","e","r">>,
       <<"c","o","n","t","a","i","n","e","r">>,
       <<"b","u","t","t","o","n">>,
       <<"l","a","b","e","l">>,
       <<"t","i","t","l","e">>,
       <<"i","t","e","m">>,
       <<"a","c","t","i","v","e">>,
       <<"s","e","l","e","c","t","e","d">>,
       <<"h","e","a","d","e","r">>,
       <<"f","o","o","t","e","r">>,
       <<"n","a","v">>,
       <<"m","e","n","u">>,
       <<"c","a","r","d">>,
       <<"m","o","d","a","l">>,
       <<"d","i","a","l","o","g">>,
       <<"i","n","p","u","t">>,
       <<"t","e","x","t">>,
       <<"i","c","o","n">>,
       <<"a","v","a","t","a","r">>,
       <<"u","s","e","r">>,
       <<"p","r","o","f","i","l","e">>,
       <<"s","e","a","r","c","h">>,
       <<"p","r","o","g","r","e","s","s">>,
       <<"a","u","t","h">>,
       <<"l","o","g","i","n">>,
       <<"s","i","g","n","u","p">> >>

\* safeWords.some((w) => name.toLowerCase() === w)
IsSafeWord(name) == \E i \in DOMAIN safeWords : toLowerCase(name) = safeWords[i]

\* frameworkPatterns.some((p) => p.test(name))
MatchesFramework(name) ==
    \/ StartsWithCI(name, <<"c","s","s","-">>) /\ AllFrom(name, 5, AlnumChars)
    \/ StartsWithCI(name, <<"s","c","-">>) /\ AllFrom(name, 4, LetterChars)
    \/ StartsWithCI(name, <<"n","g","c","o","n","t","e","n","t","-">>)
    \/ StartsWithCI(name, <<"n","g","h","o","s","t","-">>)
    \/ StartsWithCI(name, <<"_","n","g","c","o","n","t","e","n","t","-">>)
    \/ StartsWithCI(name, <<"_","n","g","h","o","s","t","-">>)
    \/ StartsWithCI(name, <<"e","m","b","e","r">>) /\ AllFrom(name, 6, DigitChars)
    \/ StartsWithCI(name, <<"_","_","n","e","x","t">>)
    \/ StartsWithCI(name, <<"j","s","x","-">>) /\ AllFrom(name, 5, AlnumChars)
    \/ StartsWithCI(name, <<"s","v","e","l","t","e","-">>) /\ AllFrom(name, 8, AlnumChars)

\* Any alphanumeric suffix of 6 or more characters counts, word-like or not.
HashSuffixAnySuffix(name) ==
    \E i \in DOMAIN name :
        /\ name[i] \in DelimChars
        /\ Len(name) - i >= 6
        /\ AllFrom(name, i + 1, AlnumChars)

\* name.match(/[-_]([a-z0-9]{6,})$/i) and the suffix is not word-like
HashSuffix(name) ==
    \E i \in DOMAIN name :
        /\ name[i] \in DelimChars
        /\ Len(name) - i >= 6
        /\ AllFrom(name, i + 1, AlnumChars)
        /\ ~isWordLike(Tail2(name, i + 1))

\* /^[a-z]+(_\d+){2,}$/i
PrefixNumbers(name) ==
    \E k \in 1..Len(name) :
        /\ \A j \in 1..k : name[j] \in LetterChars
        /\ k + 1 <= Len(name)
        /\ name[k + 1] = "_"
        /\ \A j \in (k + 1)..Len(name) : name[j] \in DigitChars \cup {"_"}
        /\ \A j \in (k + 1)..Len(name) :
              name[j] = "_" => (j < Len(name) /\ name[j + 1] \in DigitChars)
        /\ Cardinality({ j \in (k + 1)..Len(name) : name[j] = "_" }) >= 2

\* /^[a-z]?\d+$|^\d+[a-z]?$/i
NumericOrLetterDigits(name) ==
    \/ AllFrom(name, 1, DigitChars)
    \/ /\ Len(name) >= 2
       /\ name[1] \in LetterChars
       /\ AllFrom(name, 2, DigitChars)
    \/ /\ Len(name) >= 2
       /\ name[Len(name)] \in LetterChars
       /\ \A j \in 1..(Len(name) - 1) : name[j] \in DigitChars

\* name.split(/[-_]/).length > 6
TooManySegments(name) == Len(Split(name, DelimChars)) > 6

\* Three letters are needed before the digits, and nine characters of hex.
HashLikeLongerRuns(name) ==
    \/ \E i \in 1..(Len(name) - 5) :
          /\ \A j \in i..(i + 2) : name[j] \in LetterChars
          /\ \A j \in (i + 3)..(i + 5) : name[j] \in DigitChars
    \/ HasRun(name, 9, HexChars)

\* /[a-z]{2,}\d{3,}|[0-9a-f]{8,}/i
HashLike(name) ==
    \/ \E i \in 1..(Len(name) - 4) :
          /\ name[i] \in LetterChars
          /\ name[i + 1] \in LetterChars
          /\ \A j \in (i + 2)..(i + 4) : name[j] \in DigitChars
    \/ HasRun(name, 8, HexChars)

\* fewer than 30% of more than 2 words are word-like
LowWordRatio(name) ==
    LET cleanName == [ i \in DOMAIN name |->
                         IF name[i] \in DelimChars THEN " " ELSE ToLowerChar(name[i]) ]
        words == SelectSeq(Split(cleanName, {" "}), NonEmpty)
        wordLikeCount == Len(SelectSeq(words, isWordLike))
    IN  Len(words) > 2 /\ 10 * wordLikeCount < 3 * Len(words)

\* The allow-list check returns "generated" instead of "not generated".
IsGeneratedIdentifierSafeFlipped(name) ==
    IF Len(name) = 0 THEN FALSE
    ELSE IF IsSafeWord(name) THEN TRUE
    ELSE \/ MatchesFramework(name)
         \/ HashSuffix(name)
         \/ PrefixNumbers(name)
         \/ NumericOrLetterDigits(name)
         \/ TooManySegments(name)
         \/ HashLike(name)
         \/ LowWordRatio(name)

isGeneratedIdentifier(name) ==
    IF Len(name) = 0 THEN FALSE
    ELSE IF IsSafeWord(name) THEN FALSE
    ELSE IF MatchesFramework(name) THEN TRUE
    ELSE IF HashSuffix(name) THEN TRUE
    ELSE IF PrefixNumbers(name) THEN TRUE
    ELSE IF NumericOrLetterDigits(name) THEN TRUE
    ELSE IF TooManySegments(name) THEN TRUE
    ELSE IF HashLike(name) THEN TRUE
    ELSE IF LowWordRatio(name) THEN TRUE
    ELSE FALSE

\* ------------------------------------------------------------------------
\* The document tree
\* ------------------------------------------------------------------------

VARIABLES
    tagName,          \* element id -> tag name; ids are in document order
    attribs,          \* element id -> (attribute name -> value), present names only
    childNodes,       \* element id -> list of child entries (elements, text, comments)
    markers,          \* the summaries inserted so far, in insertion order
    pc,               \* position of compress / deduplicateRepeatedStructures
    pass,             \* number of the deduplication call in progress (0 before)
    order,            \* the elements selected by $("*"), in document order
    idx,              \* position in order of the container being evaluated
    children,         \* element children of that container when it was evaluated
    structuralGroups, \* Map signature -> elements, in insertion order
    gidx,             \* position in structuralGroups of the group in hand
    elementsByBadges, \* Map badgeKey -> elements of the group in hand
    badgeSummary,     \* Map badge text -> count of the group in hand
    keptElements,     \* Set of elements of the group in hand that stay
    changed,          \* the flag of the empty-element cleanup loop
    removed,          \* history: pass -> elements removed by $(el).remove()
    visited,          \* history: containers evaluated so far in this pass
    before,           \* history: the tree as the deduplication call found it
    identifier,       \* the name given to isGeneratedIdentifier
    verdict,          \* its result ("none" before the call)
    argv,             \* process.argv
    answer,           \* what the user types when run() asks for a file path
    clipboard,        \* the system clipboard
    files,            \* the file system: path -> content
    html,             \* run(): the HTML that was read
    inputSource,      \* run(): where it was read from
    compressedHtml,   \* run(): what compress returned
    exitCode,         \* "running", or the exit code of the process
    io                \* history: the clipboard, prompt and file operations performed

domVars == << tagName, attribs, childNodes, markers >>

dedupVars == << order, idx, children, structuralGroups, gidx, elementsByBadges,
                badgeSummary, keptElements >>

histVars == << removed, visited, before >>

classifyVars == << identifier, verdict >>

cliVars == << argv, answer, clipboard, files, html, inputSource, compressedHtml, exitCode,
             io >>

vars == << tagName, attribs, childNodes, markers, pc, pass, order, idx, children,
           structuralGroups, gidx, elementsByBadges, badgeSummary, keptElements,
           changed, removed, visited, before, identifier, verdict, argv, answer, clipboard,
           files, html, inputSource, compressedHtml, exitCode, io >>

Root == 1

Elements == DOMAIN tagName

TagEntry(n) == [type |-> "tag", id |-> n, data |-> << >>]

TextEntry(s) == [type |-> "text", id |-> 0, data |-> s]

CommentEntry(m, kind) == [type |-> "comment", id |-> m, data |-> kind]

\* $el.attr(a) || ""
Attr(n, a) == IF a \in DOMAIN attribs[n] THEN attribs[n][a] ELSE << >>

\* $el.children().toArray(): the element children, in order
ElementChildren(n) ==
    LET tags == SelectSeq(childNodes[n], LAMBDA e : e.type = "tag")
    IN  [ i \in DOMAIN tags |-> tags[i].id ]

HasParent(n) == \E p \in Elements : \E i \in DOMAIN childNodes[p] :
                    childNodes[p][i].type = "tag" /\ childNodes[p][i].id = n

ParentOf(n) == CHOOSE p \in Elements : \E i \in DOMAIN childNodes[p] :
                    childNodes[p][i].type = "tag" /\ childNodes[p][i].id = n

RECURSIVE Attached(_)
Attached(n) ==
    IF n = Root THEN TRUE
    ELSE IF ~HasParent(n) THEN FALSE
    ELSE Attached(ParentOf(n))

\* $el.find("*").toArray(): the descendant elements in document order
RECURSIVE Descendants(_)
RECURSIVE DescendantsOfList(_)
DescendantsOfList(ns) ==
    IF Len(ns) = 0 THEN << >>
    ELSE << Head(ns) >> \o Descendants(Head(ns)) \o DescendantsOfList(Tail(ns))

Descendants(n) == DescendantsOfList(ElementChildren(n))

\* $el.text(): the text of all descendant text nodes, in order
RECURSIVE Text(_)
RECURSIVE TextOfEntries(_)
TextOfEntries(es) ==
    IF Len(es) = 0 THEN << >>
    ELSE LET e == Head(es)
         IN  (IF e.type = "text" THEN e.data
              ELSE IF e.type = "tag" THEN Text(e.id)
              ELSE << >>) \o TextOfEntries(Tail(es))

Text(n) == TextOfEntries(childNodes[n])

\* $item.clone().children().remove().end().text(): the element's own text
DirectText(n) ==
    TextOfEntries(SelectSeq(childNodes[n], LAMBDA e : e.type = "text"))

\* $("*"): every element attached to the document, in document order
RECURSIVE SortedSeq(_)
SortedSeq(S) ==
    IF S = {} THEN << >>
    ELSE LET m == CHOOSE x \in S : \A y \in S : x <= y
         IN  << m >> \o SortedSeq(S \ {m})

SelectAll == SortedSeq({ n \in Elements : Attached(n) })

\* ------------------------------------------------------------------------
\* Attribute filtering
\* ------------------------------------------------------------------------

eventHandlerAttributes ==
    {"onclick", "ondblclick", "onmousedown", "onmouseup", "onmouseover", "onmouseout",
     "onmousemove", "onmouseenter", "onmouseleave", "onkeydown", "onkeyup", "onkeypress",
     "onfocus", "onblur", "onchange", "oninput", "onsubmit", "onreset", "onload",
     "onerror", "onscroll", "onresize", "ontouchstart", "ontouchmove", "ontouchend"}

attributesToRemove ==
    {"draggable", "spellcheck", "autocomplete", "autocorrect", "autocapitalize",
     "translate", "contenteditable", "xmlns", "xml:lang", "xml:space"}

\* The class list keeps the generated-looking classes and drops the others.
filterClassesInverted(classStr) ==
    IF Len(classStr) = 0 THEN << >>
    ELSE LET classes == SelectSeq(SplitWs(classStr), NonEmpty)
             filtered == SelectSeq(classes, LAMBDA c : isGeneratedIdentifier(c))
         IN  Join(filtered, <<" ">>)

\* options.stripGeneratedClasses is true (defaultOptions)
filterClasses(classStr) ==
    IF Len(classStr) = 0 THEN << >>
    ELSE LET classes == SelectSeq(SplitWs(classStr), NonEmpty)
             filtered == SelectSeq(classes, LAMBDA c : ~isGeneratedIdentifier(c))
         IN  Join(filtered, <<" ">>)

\* The attributes of one element after the loop body of phase 3, under
\* defaultOptions. The documents of the model carry no data-* attribute.
FilteredAttribs(a) ==
    LET dropped == { n \in DOMAIN a :
                        \/ n = "style"
                        \/ n \in eventHandlerAttributes
                        \/ n \in attributesToRemove
                        \/ n = "class" /\ Len(filterClasses(a[n])) = 0
                        \/ n = "id" /\ isGeneratedIdentifier(a[n]) }
    IN  [ n \in (DOMAIN a) \ dropped |->
            IF n = "class" THEN filterClasses(a[n]) ELSE a[n] ]

\* ------------------------------------------------------------------------
\* Structural signature and badge content
\* ------------------------------------------------------------------------

minRepeatCount == 3

MaxChildSigs == 5

MaxChildClasses == 3

MaxBadgeLength == 60

MaxOwnTextLength == 40

BADGE_INDICATORS ==
    << <<"b","a","d","g","e">>,
       <<"l","a","b","e","l">>,
       <<"t","a","g">>,
       <<"c","h","i","p">>,
       <<"s","t","a","t","u","s">>,
       <<"i","n","d","i","c","a","t","o","r">>,
       <<"p","i","l","l">>,
       <<"f","l","a","g">>,
       <<"r","i","b","b","o","n">>,
       <<"o","v","e","r","l","a","y">> >>

InteractiveTags ==
    { <<"b","u","t","t","o","n">>, <<"a">>, <<"i","n","p","u","t">>,
      <<"s","e","l","e","c","t">>, <<"o","p","t","i","o","n">> }

\* String.prototype.includes
Includes(s, p) ==
    \E i \in 0..(Len(s) - Len(p)) : \A j \in DOMAIN p : s[i + j] = p[j]

\* Array.prototype.slice(0, n)
Slice(xs, n) == SubSeq(xs, 1, IF Len(xs) < n THEN Len(xs) ELSE n)

\* (attr("class") || "").split(/\s+/).filter((c) => c).sort()
SortedClasses(n) == SortStrings(SelectSeq(SplitWs(Attr(n, "class")), NonEmpty))

ChildSig(child) ==
    toLowerCase(tagName[child]) \o <<"[">>
        \o Join(Slice(SortedClasses(child), MaxChildClasses), <<",">>) \o <<"]">>

\* The child summary looks at the first six children instead of the first five.
getElementSignatureSixChildren(el) ==
    LET kids == ElementChildren(el)
        childSigs == [ i \in DOMAIN Slice(kids, MaxChildSigs + 1) |-> ChildSig(kids[i]) ]
    IN  toLowerCase(tagName[el]) \o <<"[">> \o Join(SortedClasses(el), <<",">>)
            \o <<"]","(">> \o Join(childSigs, <<";">>) \o <<")">>

getElementSignature(el) ==
    LET kids == ElementChildren(el)
        childSigs == [ i \in DOMAIN Slice(kids, MaxChildSigs) |-> ChildSig(kids[i]) ]
    IN  toLowerCase(tagName[el]) \o <<"[">> \o Join(SortedClasses(el), <<",">>)
            \o <<"]","(">> \o Join(childSigs, <<";">>) \o <<")">>

\* addIfMeaningful: the strings it adds to the set, given one candidate
Meaningful(text) ==
    IF Len(text) = 0 THEN {}
    ELSE LET trimmed == trim(text)
         IN  IF Len(trimmed) > 0 /\ Len(trimmed) < MaxBadgeLength
             THEN { trimmed } ELSE {}

\* what elementsToCheck.forEach adds for one element
BadgesOfItem(item) ==
    LET classStr == toLowerCase(Attr(item, "class"))
        isBadgeElement == \E i \in DOMAIN BADGE_INDICATORS :
                              Includes(classStr, BADGE_INDICATORS[i])
        isInteractive == toLowerCase(tagName[item]) \in InteractiveTags
    IN  Meaningful(Attr(item, "aria-label"))
            \cup Meaningful(Attr(item, "title"))
            \cup Meaningful(Attr(item, "placeholder"))
            \cup (IF isBadgeElement \/ isInteractive
                  THEN Meaningful(trim(DirectText(item))) ELSE {})

\* Array.from(set).sort() for a set of distinct strings
RECURSIVE SortStringSet(_)
SortStringSet(S) ==
    IF S = {} THEN << >>
    ELSE LET m == CHOOSE x \in S : \A y \in S \ {x} : StrLess(x, y)
         IN  << m >> \o SortStringSet(S \ {m})

extractBadgeContent(el) ==
    LET items == << el >> \o Descendants(el)
        found == UNION { BadgesOfItem(items[i]) : i \in DOMAIN items }
        text  == trim(Text(el))
        badges == IF found = {}
                  THEN IF Len(text) > 0 /\ Len(text) < MaxOwnTextLength
                       THEN { text } ELSE {}
                  ELSE found
    IN  SortStringSet(badges)

NoneKey == <<"(","n","o","n","e",")">>

\* badges.join(" | ") || "(none)"
BadgeKeyOf(badges) ==
    LET joined == Join(badges, <<" ","|"," ">>)
    IN  IF Len(joined) = 0 THEN NoneKey ELSE joined

\* ------------------------------------------------------------------------
\* Structural deduplication
\* ------------------------------------------------------------------------

\* The entries of a Map filled by "if (!m.has(k)) m.set(k, []); m.get(k).push(v)"
\* for the pairs (keys[i], vals[i]) in order: keys in insertion order, each with
\* its values in the order pushed.
GroupByKeys(keys, vals) ==
    LET firsts == SortedSeq({ i \in DOMAIN keys : \A j \in 1..(i - 1) : keys[j] # keys[i] })
        members(k) == SortedSeq({ j \in DOMAIN keys : keys[j] = k })
    IN  [ g \in DOMAIN firsts |->
            [ key |-> keys[firsts[g]],
              elements |-> [ t \in DOMAIN members(keys[firsts[g]]) |->
                               vals[members(keys[firsts[g]])[t]] ] ] ]

\* The entries of a Map filled by "m.set(k, (m.get(k) || 0) + 1)" for keys in order
CountByKeys(keys) ==
    LET firsts == SortedSeq({ i \in DOMAIN keys : \A j \in 1..(i - 1) : keys[j] # keys[i] })
    IN  [ g \in DOMAIN firsts |->
            [ badge |-> keys[firsts[g]],
              count |-> Cardinality({ j \in DOMAIN keys : keys[j] = keys[firsts[g]] }) ] ]

RECURSIVE Concat(_)
Concat(seqs) == IF Len(seqs) = 0 THEN << >> ELSE Head(seqs) \o Concat(Tail(seqs))

\* A group is collapsed from one element short of options.minRepeatCount on.
QualifiesOneShort(elements) == Len(elements) >= minRepeatCount - 1

\* elements.length >= options.minRepeatCount
Qualifies(elements) == Len(elements) >= minRepeatCount

\* The strings counted in badgeSummary for the elements, in the order counted
BadgeOccurrences(elements) ==
    Concat([ i \in DOMAIN elements |->
               LET badges == extractBadgeContent(elements[i])
               IN  IF Len(badges) = 0 THEN << NoneKey >> ELSE badges ])

\* The entries are listed only when there are two or more of them.
VariationsFromTwo(summary) ==
    LET listed == SelectSeq(summary, LAMBDA e : e.badge # NoneKey)
    IN  IF Len(listed) >= 2 THEN listed ELSE << >>

\* Array.from(badgeSummary.entries()).filter(([badge, _]) => badge !== "(none)")
Variations(summary) == SelectSeq(summary, LAMBDA e : e.badge # NoneKey)

\* mainClass ? `.${mainClass}` : tagName
Descriptor(first) ==
    LET mainClass == SplitWs(Attr(first, "class"))[1]
        tag == IF Len(tagName[first]) = 0
               THEN <<"e","l","e","m","e","n","t">> ELSE toLowerCase(tagName[first])
    IN  IF Len(mainClass) > 0 THEN <<".">> \o mainClass ELSE tag

\* The nodes that $first.before(comment + "\n") inserts for marker m
MarkerNodes(m, withVariations) ==
    << TextEntry(<<"\n">>), CommentEntry(m, "REPEATED"), TextEntry(<<"\n">>) >>
        \o (IF withVariations
            THEN << CommentEntry(m, "Badge variations"), TextEntry(<<"\n">>) >>
            ELSE << >>)

IndexOfElement(list, n) ==
    CHOOSE i \in DOMAIN list : list[i].type = "tag" /\ list[i].id = n

\* The new nodes are put after element n instead of before it.
InsertAfter(list, n, new) ==
    LET i == IndexOfElement(list, n)
    IN  SubSeq(list, 1, i) \o new \o SubSeq(list, i + 1, Len(list))

\* The last node of the list is dropped while the new nodes are put in.
InsertBeforeDroppingLast(list, n, new) ==
    LET i == IndexOfElement(list, n)
    IN  SubSeq(list, 1, i - 1) \o new \o SubSeq(list, i, Len(list) - 1)

\* $(n).before(new)
InsertBefore(list, n, new) ==
    LET i == IndexOfElement(list, n)
    IN  SubSeq(list, 1, i - 1) \o new \o SubSeq(list, i, Len(list))

\* $(el).remove() for every el of R
RemoveAll(R) ==
    [ p \in Elements |->
        SelectSeq(childNodes[p], LAMBDA e : ~(e.type = "tag" /\ e.id \in R)) ]

\* Only the first element of the whole group is kept.
KeptOfGroupFirstOnly(byBadges) == { byBadges[1].elements[1] }

\* keptElements: the first element of each badge combination
KeptOf(byBadges) == { byBadges[k].elements[1] : k \in DOMAIN byBadges }

\* The removal loop stops after the first element it removes.
ToRemoveFirstOnly(elements, kept) ==
    LET R == { i \in DOMAIN elements : elements[i] \notin kept }
    IN  IF R = {} THEN {} ELSE { elements[CHOOSE i \in R : \A j \in R : i <= j] }

\* The kept elements are removed with the others.
ToRemoveKeptToo(elements, kept) == { elements[i] : i \in DOMAIN elements }

\* elements.forEach((el) => { if (!keptElements.has(el)) $(el).remove() })
ToRemove(elements, kept) == { elements[i] : i \in DOMAIN elements } \ kept

\* Selected elements that are no longer in the document are passed over.
CandidatesAttachedOnly ==
    { j \in (idx + 1)..Len(order) :
        /\ Len(ElementChildren(order[j])) >= minRepeatCount
        /\ Attached(order[j]) }

\* The positions after idx of the selected elements with enough children
Candidates ==
    { j \in (idx + 1)..Len(order) :
        Len(ElementChildren(order[j])) >= minRepeatCount }

\* The positions after gidx of the structural groups with enough repetition
CandidateGroups ==
    { g \in (gidx + 1)..Len(structuralGroups) : Qualifies(structuralGroups[g].elements) }

Min(S) == CHOOSE x \in S : \A y \in S : x <= y

\* What the call finds: of every element its child nodes, its signature and
\* its badge key
Snapshot ==
    [ n \in Elements |->
        [ childNodes |-> childNodes[n],
          signature |-> getElementSignature(n),
          badgeKey |-> BadgeKeyOf(extractBadgeContent(n)) ] ]

\* deduplicateRepeatedStructures is entered: $("*") selects the elements
StartDedup ==
    /\ pc = "dedup"
    /\ pc' = "each"
    /\ pass' = pass + 1
    /\ order' = SelectAll
    /\ idx' = 0
    /\ before' = Snapshot
    /\ UNCHANGED << domVars, children, structuralGroups, gidx, elementsByBadges,
                    badgeSummary, keptElements, changed, removed, visited,
                    classifyVars, cliVars >>

\* The each callback up to the grouping by signature, for the next selected
\* element that has at least minRepeatCount children (the callback returns at
\* once for the elements before it).
EvalContainer ==
    /\ pc = "each"
    /\ Candidates # {}
    /\ LET j == Min(Candidates)
           parent == order[j]
           kids == ElementChildren(parent)
           sigs == [ i \in DOMAIN kids |-> getElementSignature(kids[i]) ]
       IN  /\ idx' = j
           /\ children' = kids
           /\ structuralGroups' = GroupByKeys(sigs, kids)
           /\ visited' = visited \cup
                  { [pass |-> pass, el |-> parent, attached |-> Attached(parent)] }
    /\ gidx' = 0
    /\ pc' = "groups"
    /\ UNCHANGED << domVars, pass, order, elementsByBadges, badgeSummary, keptElements,
                    changed, removed, before, classifyVars, cliVars >>

\* structuralGroups.forEach for the next group with enough repetition: the
\* badges are extracted, the summary is inserted and keptElements is filled.
GroupDecide ==
    /\ pc = "groups"
    /\ CandidateGroups # {}
    /\ LET g == Min(CandidateGroups)
           elements == structuralGroups[g].elements
           keys == [ i \in DOMAIN elements |->
                       BadgeKeyOf(extractBadgeContent(elements[i])) ]
           byBadges == GroupByKeys(keys, elements)
           summary == CountByKeys(BadgeOccurrences(elements))
           first == elements[1]
           m == Len(markers) + 1
       IN  /\ gidx' = g
           /\ elementsByBadges' = byBadges
           /\ badgeSummary' = summary
           /\ markers' = Append(markers,
                  [ pass |-> pass, container |-> ParentOf(first), first |-> first,
                    count |-> Len(elements), descriptor |-> Descriptor(first),
                    variations |-> Variations(summary) ])
           /\ childNodes' = [ childNodes EXCEPT ![ParentOf(first)] =
                  InsertBefore(@, first, MarkerNodes(m, Len(Variations(summary)) > 0)) ]
           /\ keptElements' = KeptOf(byBadges)
    /\ pc' = "remove"
    /\ UNCHANGED << tagName, attribs, pass, order, idx, children, structuralGroups,
                    changed, histVars, classifyVars, cliVars >>

\* The elements of the group in hand that are not kept are removed.
GroupRemove ==
    /\ pc = "remove"
    /\ LET elements == structuralGroups[gidx].elements
           R == ToRemove(elements, keptElements)
       IN  /\ childNodes' = RemoveAll(R)
           /\ removed' = removed \cup { << pass, e >> : e \in R }
    /\ pc' = "groups"
    /\ UNCHANGED << tagName, attribs, markers, pass, dedupVars, changed, visited,
                    before, classifyVars, cliVars >>

\* No group with enough repetition is left: the callback returns.
EndContainer ==
    /\ pc = "groups"
    /\ CandidateGroups = {}
    /\ pc' = "each"
    /\ UNCHANGED << domVars, pass, dedupVars, changed, histVars, classifyVars, cliVars >>

\* ------------------------------------------------------------------------
\* compress
\* ------------------------------------------------------------------------

emptyPresentationalTags ==
    { <<"y","t","-","t","o","u","c","h","-","f","e","e","d","b","a","c","k","-","s","h","a","p","e">>,
      <<"d","i","v">>, <<"s","p","a","n">> }

\* Phase 3: the attributes of every element are filtered. Phase 4 (URLs of
\* img and source, text nodes over maxTextLength) finds nothing to change in
\* the documents of the model.
FilterAttributes ==
    /\ pc = "filter"
    /\ attribs' = [ n \in Elements |-> FilteredAttribs(attribs[n]) ]
    /\ pc' = "dedup"
    /\ UNCHANGED << tagName, childNodes, markers, pass, dedupVars, changed, histVars,
                    classifyVars, cliVars >>

\* $("*").each has run through the selection: phase 5 is over
FinishDedup ==
    /\ pc = "each"
    /\ Candidates = {}
    /\ pc' = "cleanup"
    /\ changed' = TRUE
    /\ UNCHANGED << domVars, pass, dedupVars, histVars, classifyVars, cliVars >>

\* The text is not trimmed before its length is taken.
EmptyElementsUntrimmed ==
    { n \in Elements :
        /\ Attached(n)
        /\ toLowerCase(tagName[n]) \in emptyPresentationalTags
        /\ DOMAIN attribs[n] = {}
        /\ Len(Text(n)) = 0
        /\ Len(ElementChildren(n)) = 0 }

\* The elements one iteration of the cleanup loop removes
EmptyElements ==
    { n \in Elements :
        /\ Attached(n)
        /\ toLowerCase(tagName[n]) \in emptyPresentationalTags
        /\ DOMAIN attribs[n] = {}
        /\ Len(trim(Text(n))) = 0
        /\ Len(ElementChildren(n)) = 0 }

\* Phase 6: one iteration of "while (changed)"
CleanupPass ==
    /\ pc = "cleanup"
    /\ changed
    /\ childNodes' = RemoveAll(EmptyElements)
    /\ changed' = (EmptyElements # {})
    /\ UNCHANGED << tagName, attribs, markers, pc, pass, dedupVars, histVars,
                    classifyVars, cliVars >>

\* The cleanup loop exits and compress returns the output
Finish ==
    /\ pc = "cleanup"
    /\ ~changed
    /\ pc' = "done"
    /\ UNCHANGED << domVars, pass, dedupVars, changed, histVars, classifyVars, cliVars >>

\* ------------------------------------------------------------------------
\* Documents
\* ------------------------------------------------------------------------

MaxKids == 5

NoAttribs == [ a \in {} |-> << >> ]

El(tag, attrs, kids) == [k |-> "el", tag |-> tag, attrs |-> attrs, kids |-> kids, data |-> << >>]

Tx(data) == [k |-> "text", tag |-> << >>, attrs |-> NoAttribs, kids |-> << >>, data |-> data]

sLi == <<"l","i">>

sDiv == <<"d","i","v">>

sSpan == <<"s","p","a","n">>

sItem == <<"i","t","e","m">>

sNew == <<"N","e","w">>

sSale == <<"S","a","l","e">>

ItemClass == [class |-> sItem]

PlainItem == El(sLi, ItemClass, << >>)

ChildKinds ==
    {"plain", "new", "sale", "both", "joined", "none", "div", "hashed", "text",
     "badge", "long", "box3", "box1"}

Kind(k) ==
    CASE k = "plain"  -> PlainItem
      [] k = "new"    -> El(sLi, ItemClass @@ [title |-> sNew], << >>)
      [] k = "sale"   -> El(sLi, ItemClass @@ [title |-> sSale], << >>)
      [] k = "both"   -> El(sLi, ItemClass @@ [title |-> sNew] @@ ("aria-label" :> sSale), << >>)
      [] k = "joined" -> El(sLi, ItemClass @@ [title |-> sNew \o <<" ","|"," ">> \o sSale], << >>)
      [] k = "none"   -> El(sLi, ItemClass @@ [title |-> <<"(","n","o","n","e",")">>], << >>)
      [] k = "div"    -> El(sDiv, ItemClass, << >>)
      [] k = "hashed" -> El(sLi, [class |-> sItem \o <<" ","c","s","s","-","1","a","2","b","3","c">>,
                                  id |-> <<"e","m","b","e","r","1","2","3","4">>,
                                  style |-> <<"x">>, role |-> <<"r","o","w">>], << >>)
      [] k = "text"   -> El(sLi, ItemClass, << Tx(<<" ">> \o sNew \o <<"\n">>) >>)
      [] k = "badge"  -> El(sLi, ItemClass,
                            << El(sSpan, [class |-> <<"b","a","d","g","e">>], << Tx(sSale) >>) >>)
      [] k = "long"   -> El(sLi, ItemClass @@ [title |-> [ i \in 1..MaxBadgeLength |-> "x" ]], << >>)
      [] k = "box3"   -> El(sDiv, NoAttribs, << PlainItem, PlainItem, PlainItem >>)
      [] k = "box1"   -> El(sDiv, NoAttribs, << PlainItem >>)

\* The kinds of children one document mixes
Palettes == { {a, b} : a, b \in ChildKinds } \cup { {"plain", "new", "sale"} }

KindLists == UNION { [1..n -> pal] : n \in 1..MaxKids, pal \in Palettes }

Document(kinds) ==
    El(<<"b","o","d","y">>, NoAttribs, [ i \in DOMAIN kinds |-> Kind(kinds[i]) ])

\* The element table of a list of nodes, ids given in document order from next
RECURSIVE Build(_, _)
Build(items, next) ==
    IF Len(items) = 0
    THEN [entries |-> << >>, tab |-> << >>, next |-> next]
    ELSE LET h == Head(items)
         IN  IF h.k = "text"
             THEN LET r == Build(Tail(items), next)
                  IN  [entries |-> << TextEntry(h.data) >> \o r.entries,
                       tab |-> r.tab, next |-> r.next]
             ELSE LET sub == Build(h.kids, next + 1)
                      r == Build(Tail(items), sub.next)
                  IN  [entries |-> << TagEntry(next) >> \o r.entries,
                       tab |-> << [tagName |-> h.tag, attribs |-> h.attrs,
                                   childNodes |-> sub.entries] >> \o sub.tab \o r.tab,
                       next |-> r.next]

\* cheerio.load(html) for a document of the model; phases 1 and 2 find nothing
\* to remove in it.
Loaded(doc) ==
    LET tab == Build(<< doc >>, Root).tab
    IN  /\ tagName = [ n \in DOMAIN tab |-> tab[n].tagName ]
        /\ attribs = [ n \in DOMAIN tab |-> tab[n].attribs ]
        /\ childNodes = [ n \in DOMAIN tab |-> tab[n].childNodes ]
        /\ markers = << >>

IdleDedup ==
    /\ pass = 0
    /\ order = << >>
    /\ idx = 0
    /\ children = << >>
    /\ structuralGroups = << >>
    /\ gidx = 0
    /\ elementsByBadges = << >>
    /\ badgeSummary = << >>
    /\ keptElements = {}
    /\ changed = FALSE
    /\ removed = {}
    /\ visited = {}
    /\ before = << >>

IdleClassify ==
    /\ identifier = << >>
    /\ verdict = "none"

\* compress is called on its own, not from run()
IdleRun ==
    /\ argv = << >>
    /\ answer = << >>
    /\ clipboard = << >>
    /\ files = << >>
    /\ html = << >>
    /\ inputSource = << >>
    /\ compressedHtml = << >>
    /\ exitCode = "running"
    /\ io = << >>

Init ==
    /\ \E kinds \in KindLists : Loaded(Document(kinds))
    /\ pc = "filter"
    /\ IdleDedup
    /\ IdleClassify
    /\ IdleRun

Next ==
    \/ FilterAttributes
    \/ StartDedup
    \/ EvalContainer
    \/ GroupDecide
    \/ GroupRemove
    \/ EndContainer
    \/ FinishDedup
    \/ CleanupPass
    \/ Finish

Spec == Init /\ [][Next]_vars

\* ------------------------------------------------------------------------
\* Properties of the deduplication
\* ------------------------------------------------------------------------

\* The container the each callback was last entered for
Container == order[idx]

\* The each callback has returned for Container; nothing below its children
\* has changed since they were grouped.
Evaluated == pc = "each" /\ idx > 0

\* x is an element child of c now
StillChild(x, c) ==
    \E k \in DOMAIN childNodes[c] : childNodes[c][k].type = "tag" /\ childNodes[c][k].id = x

\* The positions in children of the elements signature-equal to children[i]
Partition(i) ==
    { j \in DOMAIN children :
        getElementSignature(children[j]) = getElementSignature(children[i]) }

BadgeSet(x) == Range(extractBadgeContent(x))

BadgeKey(x) == BadgeKeyOf(extractBadgeContent(x))

\* The markers inserted in this pass for the partition of children[i]
MarkersOf(i) ==
    { m \in DOMAIN markers :
        /\ markers[m].pass = pass
        /\ markers[m].container = Container
        /\ \E j \in Partition(i) : markers[m].first = children[j] }

\* C1: once a container is evaluated, in every partition of signature-equal
\* children of size >= minRepeatCount a member is still a child of the
\* container exactly when no earlier member of the partition has its BadgeKey.
C1_FirstOfEachBadgeKeyRetained ==
    Evaluated =>
        \A i \in DOMAIN children :
            Cardinality(Partition(i)) >= minRepeatCount =>
                ( StillChild(children[i], Container)
                    <=> \A j \in Partition(i) :
                            j < i => BadgeKey(children[j]) # BadgeKey(children[i]) )

\* A partition was collapsed to two or more retained members.
C1_Witness ==
    /\ Evaluated
    /\ \E i \in DOMAIN children :
          /\ Cardinality(Partition(i)) >= minRepeatCount
          /\ ~StillChild(children[i], Container)
          /\ Cardinality({ j \in Partition(i) : StillChild(children[j], Container) }) >= 2

\* A deduplication step changes the child list of an element only as C2 allows.
SmallGroupsUntouchedStep ==
    pc \in {"dedup", "each", "groups", "remove"} =>
        \A p \in Elements :
            childNodes'[p] # childNodes[p] =>
                /\ p = Container
                /\ Len(children) >= minRepeatCount
                /\ \A i \in DOMAIN children :
                      ( /\ StillChild(children[i], p)
                        /\ ~(\E k \in DOMAIN childNodes'[p] :
                                /\ childNodes'[p][k].type = "tag"
                                /\ childNodes'[p][k].id = children[i]) )
                          => Cardinality(Partition(i)) >= minRepeatCount
                /\ (Len(markers') > Len(markers)) =>
                      \A i \in DOMAIN children :
                          children[i] = markers'[Len(markers')].first
                              => Cardinality(Partition(i)) >= minRepeatCount

\* C2: a deduplication step changes the child list of an element only if the
\* element is the container in hand and had at least minRepeatCount children;
\* a child it removes, and the first member a marker is inserted for, belong
\* to a partition of at least minRepeatCount members.
C2_SmallGroupsUntouched == [][SmallGroupsUntouchedStep]_vars

\* A partition of two members stays whole next to a collapsed partition.
C2_Witness ==
    /\ Evaluated
    /\ Len(markers) > 0
    /\ \E i \in DOMAIN children :
          /\ Cardinality(Partition(i)) = 2
          /\ \A j \in Partition(i) : StillChild(children[j], Container)

\* The REPEATED comments of this pass in the child list of the container
RepeatedComments ==
    { k \in DOMAIN childNodes[Container] :
        /\ childNodes[Container][k].type = "comment"
        /\ childNodes[Container][k].data = "REPEATED"
        /\ markers[childNodes[Container][k].id].pass = pass }

\* C3: once a container is evaluated, every partition of size >=
\* minRepeatCount has exactly one marker, whose nodes stand immediately before
\* the partition's first member, and no other marker was inserted; five
\* signature-equal children without badges leave one element and one marker.
C3_OneMarkerBeforeFirstMember ==
    Evaluated =>
        LET list == childNodes[Container]
            firsts == { i \in DOMAIN children :
                          /\ Cardinality(Partition(i)) >= minRepeatCount
                          /\ \A j \in Partition(i) : i <= j }
        IN  /\ \A i \in firsts :
                  /\ Cardinality(MarkersOf(i)) = 1
                  /\ markers[Min(MarkersOf(i))].first = children[i]
                  /\ \E k \in RepeatedComments :
                        /\ list[k].id = Min(MarkersOf(i))
                        /\ k < IndexOfElement(list, children[i])
                        /\ \A t \in (k + 1)..(IndexOfElement(list, children[i]) - 1) :
                              \/ list[t].type = "text"
                              \/ list[t].type = "comment" /\ list[t].id = list[k].id
            /\ Cardinality(RepeatedComments) = Cardinality(firsts)
            /\ ( /\ Len(children) = 5
                 /\ Cardinality(Partition(1)) = 5
                 /\ \A i \in DOMAIN children : BadgeSet(children[i]) = {} )
                 => /\ Len(ElementChildren(Container)) = 1
                    /\ Cardinality(RepeatedComments) = 1

\* Five signature-equal children without badges were collapsed into one
\* element preceded by one marker.
C3_Witness ==
    /\ Evaluated
    /\ Len(children) = 5
    /\ Cardinality(Partition(1)) = 5
    /\ \A i \in DOMAIN children : BadgeSet(children[i]) = {}
    /\ Len(ElementChildren(Container)) = 1
    /\ Cardinality(RepeatedComments) = 1

\* C4: once a container is evaluated, each marker of the pass carries the
\* number of members of its partition and, for every badge string of a
\* member, the number of members whose BadgeSet contains it.
C4_MarkerReportsEveryBadge ==
    Evaluated =>
        \A i \in DOMAIN children :
            \A m \in MarkersOf(i) :
                /\ markers[m].count = Cardinality(Partition(i))
                /\ \A j \in Partition(i) :
                      \A b \in BadgeSet(children[j]) :
                          \E v \in DOMAIN markers[m].variations :
                              /\ markers[m].variations[v].badge = b
                              /\ markers[m].variations[v].count =
                                    Cardinality({ t \in Partition(i) :
                                                    b \in BadgeSet(children[t]) })

\* C6: once a container is evaluated, every badge string of a member of a
\* partition of size >= minRepeatCount is a badge string of a member that is
\* still a child of the container.
C6_BadgeVariancePreserved ==
    Evaluated =>
        \A i \in DOMAIN children :
            Cardinality(Partition(i)) >= minRepeatCount =>
                \A b \in BadgeSet(children[i]) :
                    \E j \in Partition(i) :
                        /\ StillChild(children[j], Container)
                        /\ b \in BadgeSet(children[j])

\* The class tokens of element n
ClassTokens(n) == Range(SelectSeq(SplitWs(Attr(n, "class")), NonEmpty))

\* C10: deduplication is not entered before the attribute filter has run, it
\* is entered once per compress call, and while it runs no element carries a
\* class token or an id that isGeneratedIdentifier flags.
C10_FilteredBeforeDedup ==
    /\ pc = "filter" => pass = 0
    /\ pass <= 1
    /\ pc \in {"cleanup", "done"} => pass = 1
    /\ pc \in {"dedup", "each", "groups", "remove"} =>
          \A n \in Elements :
              /\ \A c \in ClassTokens(n) : ~isGeneratedIdentifier(c)
              /\ "id" \in DOMAIN attribs[n] => ~isGeneratedIdentifier(attribs[n]["id"])

\* An element that lost a generated class shares a structural group with one
\* that never had it.
C10_Witness ==
    /\ pc = "groups"
    /\ \E g \in DOMAIN structuralGroups :
          \E x, y \in Range(structuralGroups[g].elements) :
              /\ "role" \in DOMAIN attribs[x]
              /\ "role" \notin DOMAIN attribs[y]

\* ------------------------------------------------------------------------
\* deduplicateRepeatedStructures called a second time on its own result
\* ------------------------------------------------------------------------

\* The first call has returned: the function is called again on the document
SecondRun ==
    /\ pc = "each"
    /\ Candidates = {}
    /\ pass = 1
    /\ pc' = "dedup"
    /\ UNCHANGED << domVars, pass, dedupVars, changed, histVars, classifyVars, cliVars >>

NextTwice ==
    \/ FilterAttributes
    \/ StartDedup
    \/ EvalContainer
    \/ GroupDecide
    \/ GroupRemove
    \/ EndContainer
    \/ SecondRun

SpecTwice == Init /\ [][NextTwice]_vars

\* C5 as stated: the second call removes no element.
C5_SecondRunRemovesNothing == \A r \in removed : r[1] # 2

\* C5 as amended: the second call removes no element that has no element
\* children (what it removes are elements whose own children the first call
\* collapsed, which changed their signature).
C5_SecondRunRemovesNoLeaf ==
    \A r \in removed : r[1] = 2 => Len(ElementChildren(r[2])) > 0

\* The second call has evaluated a container from which the first call had
\* removed childless elements, and has returned.
C5_Witness ==
    /\ pass = 2
    /\ pc = "each"
    /\ Candidates = {}
    /\ \E v \in visited :
          /\ v.pass = 2
          /\ \E r \in removed :
                /\ r[1] = 1
                /\ Len(ElementChildren(r[2])) = 0
                /\ \E m \in DOMAIN markers :
                      markers[m].container = v.el /\ markers[m].pass = 1

\* ------------------------------------------------------------------------
\* isGeneratedIdentifier on its own
\* ------------------------------------------------------------------------

ToUpperChar(c) ==
    IF \E i \in DOMAIN LowerLetters : LowerLetters[i] = c
    THEN UpperLetters[CHOOSE i \in DOMAIN LowerLetters : LowerLetters[i] = c]
    ELSE c

css1a2b3c == <<"c","s","s","-","1","a","2","b","3","c">>

videoTitle == <<"v","i","d","e","o","-","t","i","t","l","e">>

d2l17757 == <<"d","2","l","_","1","_","7","_","7","5","7">>

ember1234 == <<"e","m","b","e","r","1","2","3","4">>

isActive == <<"i","s","-","a","c","t","i","v","e">>

ReferenceIdentifiers == { css1a2b3c, videoTitle, d2l17757, ember1234, isActive }

\* The allow-list words in lower case, capitalised and in upper case
SafeWordSpellings ==
    UNION { { safeWords[i],
              [ k \in DOMAIN safeWords[i] |->
                  IF k = 1 THEN ToUpperChar(safeWords[i][k]) ELSE safeWords[i][k] ],
              [ k \in DOMAIN safeWords[i] |-> ToUpperChar(safeWords[i][k]) ] }
            : i \in DOMAIN safeWords }

OtherIdentifiers ==
    { << >>,
      <<"s","c","-","a","b","c">>,
      <<"_","n","g","c","o","n","t","e","n","t","-","a","b","c">>,
      <<"n","g","h","o","s","t","-","x">>,
      <<"_","_","n","e","x","t">>,
      <<"j","s","x","-","1","2","3">>,
      <<"s","v","e","l","t","e","-","1","x","2">>,
      <<"b","t","n","-","a","1","b","2","c","3">>,
      <<"n","a","v","-","b","u","t","t","o","n">>,
      <<"u","s","e","r","_","1","_","2">>,
      <<"a","1","2","3">>,
      <<"1","2","3">>,
      <<"1","2","a">>,
      <<"a","-","b","-","c","-","d","-","e","-","f","-","g">>,
      <<"a","b","1","2","3">>,
      <<"d","e","a","d","b","e","e","f","1">>,
      <<"x","-","q","-","z">>,
      <<"x","y","z","z","q","q">>,
      <<"a">>,
      <<"B","t","n">>,
      <<"u","s","e","r","-","a","v","a","t","a","r">>,
      <<"s","e","a","r","c","h","-","i","n","p","u","t">>,
      <<"c","s","s","-","1","a","2","b","3","c","4">>,
      <<"_","3","x","K","9","p","Q">>,
      <<"M","u","i","B","u","t","t","o","n","-","r","o","o","t">>,
      <<"a","n","t","-","i","n","p","u","t">>,
      <<"h","a","s","-","c","h","i","l","d","r","e","n">>,
      <<"n","o","-","s","c","r","o","l","l">>,
      <<"m","a","i","n","-","c","o","n","t","e","n","t">>,
      <<"t","a","b","1">>,
      <<"i","t","e","m","-","4","2">>,
      <<"c","o","l","-","m","d","-","6">>,
      <<"a","a","a","-","b","b","b","-","c","c","c">>,
      <<"x","1","-","y","2","-","z","3">>,
      <<"d","e","a","d","b","e","e","f">>, <<"d","e","a","d","b","e","e">>, <<"D","e","a","d","B","e","e","f">>, <<"x","-","0","1","2","3","a","b","c","d">>, <<"x","-","0","1","2","3","a","b","c">>, <<"m","y","-","a","b","1","2","3">>,
      <<"m","y","_","a","1","2","3">>, <<"m","y","-","A","B","1","2","3","4">>, <<"b","u","t","t","o","n">>, <<"r","h","y","t","h","m">> }

MaxTokenLen == 5

\* Every string of up to MaxTokenLen characters over a vowel, a consonant, a
\* digit and a dash
ShortTokens == UNION { [1..n -> {"a", "b", "1", "-"}] : n \in 0..MaxTokenLen }

Identifiers ==
    ReferenceIdentifiers \cup SafeWordSpellings \cup OtherIdentifiers \cup ShortTokens

NoDocument ==
    /\ tagName = << >>
    /\ attribs = << >>
    /\ childNodes = << >>
    /\ markers = << >>

InitClassify ==
    /\ identifier \in Identifiers
    /\ verdict = "none"
    /\ pc = "classify"
    /\ NoDocument
    /\ IdleDedup
    /\ IdleRun

\* isGeneratedIdentifier(identifier) is called and returns
Classify ==
    /\ pc = "classify"
    /\ verdict' = IF isGeneratedIdentifier(identifier) THEN "generated" ELSE "authored"
    /\ pc' = "classified"
    /\ UNCHANGED << domVars, pass, dedupVars, changed, histVars, identifier, cliVars >>

\* isWordLike(identifier) is called and returns
WordLike ==
    /\ pc = "classify"
    /\ verdict' = IF isWordLike(identifier) THEN "wordlike" ELSE "notwordlike"
    /\ pc' = "wordlike"
    /\ UNCHANGED << domVars, pass, dedupVars, changed, histVars, identifier, cliVars >>

NextClassify == Classify \/ WordLike

SpecClassify == InitClassify /\ [][NextClassify]_vars

\* C8: an identifier that equals an allow-list word when case is ignored is
\* classified as not generated.
C8_SafeWordsNeverGenerated ==
    ( /\ pc = "classified"
      /\ \E i \in DOMAIN safeWords :
            /\ Len(safeWords[i]) = Len(identifier)
            /\ \A k \in DOMAIN identifier :
                  identifier[k] \in { safeWords[i][k], ToUpperChar(safeWords[i][k]) } )
        => verdict = "authored"

\* "Content" has been classified.
C8_Witness ==
    /\ pc = "classified"
    /\ identifier = <<"C","o","n","t","e","n","t">>
    /\ verdict = "authored"

\* C9: the verdicts on the documented reference identifiers.
C9_ReferenceIdentifiers ==
    pc = "classified" =>
        /\ identifier \in { css1a2b3c, d2l17757, ember1234 } => verdict = "generated"
        /\ identifier \in { videoTitle, isActive } => verdict = "authored"

\* "d2l_1_7_757" has been classified as generated.
C9_Witness ==
    /\ pc = "classified"
    /\ identifier = d2l17757
    /\ verdict = "generated"

\* ------------------------------------------------------------------------
\* Signatures of elements with up to six children
\* ------------------------------------------------------------------------

sCard == <<"c","a","r","d">>

\* A child of a card; its class attribute lists four classes
Cell(tag, classStr, kids) == El(tag, [class |-> classStr], kids)

dcba == <<"d"," ","c"," ","b"," ","a">>

Cells(first, fifth, sixth) == << first, Cell(sSpan, dcba, << >>), Cell(sSpan, dcba, << >>),
                                 Cell(sSpan, dcba, << >>), fifth >> \o sixth

BaseCell == Cell(sSpan, dcba, << >>)

CardKinds ==
    {"base", "text", "sixth", "five", "fourth", "deep", "order", "tag", "class",
     "fifth", "third"}

Card(k) ==
    CASE k = "base"   -> El(sDiv, [class |-> sCard], Cells(BaseCell, BaseCell, << BaseCell >>))
      [] k = "text"   -> El(sDiv, [class |-> sCard],
                            << Tx(sNew) >> \o Cells(BaseCell, BaseCell, << BaseCell >>))
      [] k = "sixth"  -> El(sDiv, [class |-> sCard],
                            Cells(BaseCell, BaseCell, << Cell(sLi, sItem, << >>) >>))
      [] k = "five"   -> El(sDiv, [class |-> sCard], Cells(BaseCell, BaseCell, << >>))
      [] k = "fourth" -> El(sDiv, [class |-> sCard],
                            Cells(Cell(sSpan, <<"e"," ","c"," ","b"," ","a">>, << >>),
                                  BaseCell, << BaseCell >>))
      [] k = "deep"   -> El(sDiv, [class |-> sCard],
                            Cells(Cell(sSpan, dcba, << El(sLi, NoAttribs, << Tx(sSale) >>) >>),
                                  BaseCell, << BaseCell >>))
      [] k = "order"  -> El(sDiv, [class |-> sCard],
                            Cells(Cell(sSpan, <<"a"," ","b"," "," ","c","\n","d">>, << >>),
                                  BaseCell, << BaseCell >>))
      [] k = "tag"    -> El(sLi, [class |-> sCard], Cells(BaseCell, BaseCell, << BaseCell >>))
      [] k = "class"  -> El(sDiv, [class |-> sCard \o <<" ","b","i","g">>],
                            Cells(BaseCell, BaseCell, << BaseCell >>))
      [] k = "fifth"  -> El(sDiv, [class |-> sCard],
                            Cells(BaseCell, Cell(sLi, dcba, << >>), << BaseCell >>))
      [] k = "third"  -> El(sDiv, [class |-> sCard],
                            Cells(Cell(sSpan, <<"d"," ","c"," ","b"," ","0">>, << >>),
                                  BaseCell, << BaseCell >>))

CardLists == { kinds \in [1..minRepeatCount -> CardKinds] : kinds[1] = "base" }

InitSig ==
    /\ \E kinds \in CardLists :
          Loaded(El(<<"b","o","d","y">>, NoAttribs, [ i \in DOMAIN kinds |-> Card(kinds[i]) ]))
    /\ pc = "filter"
    /\ IdleDedup
    /\ IdleClassify
    /\ IdleRun

SpecSig == InitSig /\ [][Next]_vars

\* x and y have the same tag and sorted class list, and their first 5 element
\* children pairwise have the same tag and first 3 sorted classes.
AgreeOnSignatureParts(x, y) ==
    LET kx == ElementChildren(x)
        ky == ElementChildren(y)
        nx == IF Len(kx) < 5 THEN Len(kx) ELSE 5
        ny == IF Len(ky) < 5 THEN Len(ky) ELSE 5
    IN  /\ toLowerCase(tagName[x]) = toLowerCase(tagName[y])
        /\ SortedClasses(x) = SortedClasses(y)
        /\ nx = ny
        /\ \A i \in 1..nx :
              /\ toLowerCase(tagName[kx[i]]) = toLowerCase(tagName[ky[i]])
              /\ LET cx == SortedClasses(kx[i])
                     cy == SortedClasses(ky[i])
                 IN  \A c \in 1..3 :
                        /\ (c <= Len(cx)) <=> (c <= Len(cy))
                        /\ (c <= Len(cx)) => cx[c] = cy[c]

\* C7: children of a container that agree on tag, sorted class list and the
\* tag and first 3 sorted classes of each of their first 5 element children
\* are put in the same structural group, whatever else differs.
C7_SignatureIsBounded ==
    pc = "groups" =>
        \A i, j \in DOMAIN children :
            AgreeOnSignatureParts(children[i], children[j]) =>
                \E g \in DOMAIN structuralGroups :
                    {children[i], children[j]} \subseteq Range(structuralGroups[g].elements)

\* One structural group holds elements that differ in their sixth child and
\* elements that differ in a fourth class of a child.
C7_Witness ==
    /\ pc = "groups"
    /\ \E g \in DOMAIN structuralGroups :
          \E x, y, z \in Range(structuralGroups[g].elements) :
              /\ Len(ElementChildren(x)) = 6
              /\ Len(ElementChildren(y)) = 6
              /\ tagName[ElementChildren(x)[6]] # tagName[ElementChildren(y)[6]]
              /\ SortedClasses(ElementChildren(x)[1]) # SortedClasses(ElementChildren(z)[1])

\* ------------------------------------------------------------------------
\* run(): the command line
\* ------------------------------------------------------------------------

MaxArgs == 3

\* process.argv[3] of a shorter argv, and a file that does not exist
Undefined == << "undefined" >>

Missing == << "ENOENT" >>

\* if (x): undefined and the empty string are falsy
Truthy(x) == x # Undefined /\ Len(x) > 0

AttrNames == << "id", "class", "title", "aria-label", "role", "style" >>

AttrNameChars(a) ==
    CASE a = "id"         -> <<"i","d">>
      [] a = "class"      -> <<"c","l","a","s","s">>
      [] a = "title"      -> <<"t","i","t","l","e">>
      [] a = "aria-label" -> <<"a","r","i","a","-","l","a","b","e","l">>
      [] a = "role"       -> <<"r","o","l","e">>
      [] a = "style"      -> <<"s","t","y","l","e">>

\* name="value" for the attributes present, in the order of AttrNames
AttrText(a) ==
    Concat([ i \in DOMAIN AttrNames |->
               IF AttrNames[i] \in DOMAIN a
               THEN <<" ">> \o AttrNameChars(AttrNames[i]) \o <<"=", "\"">>
                        \o a[AttrNames[i]] \o <<"\"">>
               ELSE << >> ])

\* The HTML source of a document of the model
RECURSIVE SourceOf(_)
SourceOf(node) ==
    IF node.k = "text"
    THEN node.data
    ELSE <<"<">> \o node.tag \o AttrText(node.attrs) \o <<">">>
            \o Concat([ i \in DOMAIN node.kids |-> SourceOf(node.kids[i]) ])
            \o <<"<", "/">> \o node.tag \o <<">">>

Digits == << "0", "1", "2", "3", "4", "5", "6", "7", "8", "9" >>

\* Number to string in a template literal
RECURSIVE NumStr(_)
NumStr(n) == IF n < 10 THEN << Digits[n + 1] >> ELSE NumStr(n \div 10) \o << Digits[(n % 10) + 1] >>

\* <!-- REPEATED: ${elements.length}x ${descriptor} --> and
\* <!-- Badge variations: "${badge}" (${count}x), ... -->
CommentText(e) ==
    LET m == markers[e.id]
    IN  IF e.data = "REPEATED"
        THEN <<"<","!","-","-"," ","R","E","P","E","A","T","E","D",":"," ">> \o NumStr(m.count) \o <<"x"," ">> \o m.descriptor \o <<" ","-","-",">">>
        ELSE <<"<","!","-","-"," ","B","a","d","g","e"," ","v","a","r","i","a","t","i","o","n","s",":"," ">>
                \o Join([ i \in DOMAIN m.variations |->
                            <<"\"">> \o m.variations[i].badge \o <<"\"", " ", "(">>
                                \o NumStr(m.variations[i].count) \o <<"x", ")">> ],
                        <<",", " ">>)
                \o <<" ","-","-",">">>

\* $.html() of a list of nodes
RECURSIVE HtmlOf(_)
HtmlOf(entries) ==
    IF Len(entries) = 0
    THEN << >>
    ELSE LET e == Head(entries)
         IN  (CASE e.type = "text"    -> e.data
                [] e.type = "comment" -> CommentText(e)
                [] e.type = "tag"     ->
                      <<"<">> \o tagName[e.id] \o AttrText(attribs[e.id]) \o <<">">>
                          \o HtmlOf(childNodes[e.id])
                          \o <<"<", "/">> \o tagName[e.id] \o <<">">>)
             \o HtmlOf(Tail(entries))

\* .replace(/^\s*[\r\n]/gm, ""): the lines of whitespace only are dropped. No
\* blank line is left for .replace(/\n\s*\n\s*\n/g, "\n\n") to collapse.
RemoveEmptyLines(s) ==
    LET lines == Split(s, {"\n"})
        keep == SelectSeq([ i \in DOMAIN lines |-> [last |-> i = Len(lines), text |-> lines[i]] ],
                          LAMBDA l : l.last \/ \E i \in DOMAIN l.text :
                                                   l.text[i] \notin WhitespaceChars)
    IN  Join([ i \in DOMAIN keep |-> keep[i].text ], <<"\n">>)

\* .replace(/>\s+</g, ">\n<")
RECURSIVE NewlineBetweenTags(_)
NewlineBetweenTags(s) ==
    LET starts == { i \in DOMAIN s :
                      /\ s[i] = ">"
                      /\ \E e \in (i + 2)..Len(s) :
                            /\ s[e] = "<"
                            /\ \A j \in (i + 1)..(e - 1) : s[j] \in WhitespaceChars }
    IN  IF starts = {}
        THEN s
        ELSE LET i == Min(starts)
                 e == Min({ k \in (i + 2)..Len(s) : s[k] = "<" })
             IN  SubSeq(s, 1, i) \o <<"\n", "<">> \o NewlineBetweenTags(SubSeq(s, e + 1, Len(s)))

\* .replace(/\t/g, "  ")
TabsToSpaces(s) ==
    LET tabsBefore(i) == Cardinality({ j \in 1..(i - 1) : s[j] = "\t" })
        n == Len(s) + tabsBefore(Len(s) + 1)
    IN  [ k \in 1..n |->
            LET i == CHOOSE j \in DOMAIN s :
                         \/ j + tabsBefore(j) = k
                         \/ s[j] = "\t" /\ j + tabsBefore(j) + 1 = k
            IN  IF s[i] = "\t" THEN " " ELSE s[i] ]

\* Phase 7: the output of compress for the tree as it stands
Output == trim(TabsToSpaces(NewlineBetweenTags(RemoveEmptyLines(HtmlOf(<< TagEntry(Root) >>)))))

sBody == <<"b","o","d","y">>

PageA == El(sBody, NoAttribs, << PlainItem, PlainItem, PlainItem, Kind("new") >>)

PageB == El(sBody, NoAttribs, << Kind("box1"), Tx(<<"\n", "\t">>), Kind("sale") >>)

sHello == <<"h","e","l","l","o">>

\* cheerio.load(text) for the texts of the model
Samples ==
    { [text |-> SourceOf(PageA), doc |-> PageA],
      [text |-> SourceOf(PageB), doc |-> PageB],
      [text |-> sHello, doc |-> El(sBody, NoAttribs, << Tx(sHello) >>)],
      [text |-> sHello \o <<"<","/","d","i","v",">">>, doc |-> El(sBody, NoAttribs, << Tx(sHello) >>)],
      [text |-> <<"<","d","i","v",">">>, doc |-> El(sBody, NoAttribs, << El(sDiv, NoAttribs, << >>) >>)],
      [text |-> << >>, doc |-> El(sBody, NoAttribs, << >>)] }

Parse(text) == (CHOOSE smp \in Samples : smp.text = text).doc

aHtml == <<"a",".","h","t","m","l">>

bTxt == <<"b",".","t","x","t">>

outHtml == <<"o","u","t",".","h","t","m","l">>

InitialFiles == (aHtml :> SourceOf(PageA)) @@ (bTxt :> sHello)

ArgValues == { aHtml, bTxt, outHtml, << >> }

ArgLists == UNION { [1..n -> ArgValues] : n \in 0..MaxArgs }

Answers == { << >>, <<" ">>, <<" ">> \o aHtml \o <<"\n">>, outHtml }

Clipboards == { << >>, sHello, sHello \o <<"<","/","d","i","v",">">>, <<"<","d","i","v",">">>, SourceOf(PageB) }

\* The test of line 696 on the clipboard content
LooksLikeHtml(content) ==
    /\ Len(content) > 0
    /\ \/ Includes(content, <<"<","h","t","m","l">>)
       \/ Includes(content, <<"<","b","o","d","y">>)
       \/ Includes(content, <<"<","/","d","i","v",">">>)
       \/ Includes(content, <<"<","/","s","p","a","n",">">>)

\* await readFile(path, "utf-8")
ReadFile(path) == IF path \in DOMAIN files THEN files[path] ELSE Missing

\* let outputPath = process.argv[3]
outputPath == IF Len(argv) >= 4 THEN argv[4] ELSE Undefined

InitRun ==
    /\ \E args \in ArgLists : argv = << <<"n","o","d","e">>, <<"c","o","m","p","r","e","s","s","-","h","t","m","l">> >> \o args
    /\ answer \in Answers
    /\ clipboard \in Clipboards
    /\ files = InitialFiles
    /\ html = << >>
    /\ inputSource = << >>
    /\ compressedHtml = << >>
    /\ exitCode = "running"
    /\ io = << >>
    /\ pc = "run"
    /\ NoDocument
    /\ IdleDedup
    /\ IdleClassify

\* compress(text) is entered: cheerio.load
EnterCompress(text) ==
    LET tab == Build(<< Parse(text) >>, Root).tab
    IN  /\ html' = text
        /\ tagName' = [ n \in DOMAIN tab |-> tab[n].tagName ]
        /\ attribs' = [ n \in DOMAIN tab |-> tab[n].attribs ]
        /\ childNodes' = [ n \in DOMAIN tab |-> tab[n].childNodes ]
        /\ markers' = << >>
        /\ pc' = "filter"
        /\ exitCode' = exitCode

\* process.exit(1), or the rejection of readFile, which nothing catches
Exit1 ==
    /\ exitCode' = 1
    /\ pc' = "exited"
    /\ UNCHANGED << domVars, html >>

\* readFile(filePath) and what follows it up to the call of compress
ReadAndCompress(filePath) ==
    IF ReadFile(filePath) = Missing
    THEN Exit1 /\ inputSource' = inputSource
    ELSE EnterCompress(ReadFile(filePath)) /\ inputSource' = filePath

\* No argument, and the clipboard holds something that looks like HTML
RunClipboard ==
    /\ pc = "run"
    /\ Len(argv) = 2
    /\ LooksLikeHtml(clipboard)
    /\ io' = Append(io, [op |-> "clipboard.read", path |-> << >>])
    /\ inputSource' = <<"c","l","i","p","b","o","a","r","d">>
    /\ EnterCompress(clipboard)
    /\ UNCHANGED << pass, dedupVars, changed, histVars, classifyVars, argv, answer,
                    clipboard, files, compressedHtml >>

\* No argument, and the clipboard does not look like HTML: the user is asked
RunPrompt ==
    /\ pc = "run"
    /\ Len(argv) = 2
    /\ ~LooksLikeHtml(clipboard)
    /\ LET filePath == trim(answer)
       IN  IF Len(filePath) = 0
           THEN /\ Exit1
                /\ inputSource' = inputSource
                /\ io' = io \o << [op |-> "clipboard.read", path |-> << >>],
                                  [op |-> "prompt", path |-> << >>] >>
           ELSE /\ ReadAndCompress(filePath)
                /\ io' = io \o << [op |-> "clipboard.read", path |-> << >>],
                                  [op |-> "prompt", path |-> << >>],
                                  [op |-> "readFile", path |-> filePath] >>
    /\ UNCHANGED << pass, dedupVars, changed, histVars, classifyVars, argv, answer,
                    clipboard, files, compressedHtml >>

\* One or two arguments: the first names the input file
RunFile ==
    /\ pc = "run"
    /\ Len(argv) >= 3
    /\ Len(argv) <= 4
    /\ ReadAndCompress(argv[3])
    /\ io' = Append(io, [op |-> "readFile", path |-> argv[3]])
    /\ UNCHANGED << pass, dedupVars, changed, histVars, classifyVars, argv, answer,
                    clipboard, files, compressedHtml >>

\* Any other number of arguments: the usage is printed
RunUsage ==
    /\ pc = "run"
    /\ Len(argv) > 4
    /\ Exit1
    /\ UNCHANGED << pass, dedupVars, changed, histVars, classifyVars, argv, answer,
                    clipboard, files, inputSource, compressedHtml, io >>

\* compress has returned: the result goes to the output file or the clipboard
RunOutput ==
    /\ pc = "done"
    /\ exitCode = "running"
    /\ Len(argv) >= 2
    /\ compressedHtml' = Output
    /\ IF Truthy(outputPath)
       THEN /\ files' = [ p \in DOMAIN files \cup {outputPath} |->
                            IF p = outputPath THEN Output ELSE files[p] ]
            /\ io' = Append(io, [op |-> "writeFile", path |-> outputPath])
            /\ clipboard' = clipboard
       ELSE /\ clipboard' = Output
            /\ io' = Append(io, [op |-> "clipboard.write", path |-> << >>])
            /\ files' = files
    /\ exitCode' = 0
    /\ pc' = "exited"
    /\ UNCHANGED << domVars, pass, dedupVars, changed, histVars, classifyVars, argv,
                    answer, html, inputSource >>

NextRun ==
    \/ RunClipboard
    \/ RunPrompt
    \/ RunFile
    \/ RunUsage
    \/ FilterAttributes
    \/ StartDedup
    \/ EvalContainer
    \/ GroupDecide
    \/ GroupRemove
    \/ EndContainer
    \/ FinishDedup
    \/ CleanupPass
    \/ Finish
    \/ RunOutput

SpecRun == InitRun /\ [][NextRun]_vars

ArgCount == Len(argv) - 2

\* C11: when run() has exited with code 0, the operations it performed are,
\* with no argument, a clipboard read (followed by a prompt and a file read
\* when the clipboard did not look like HTML) and a clipboard write; with one
\* argument, a read of that file and a clipboard write; with two arguments, a
\* read of the first and a write of the second as a file, the clipboard left
\* alone. What was written is the result of compress.
C11_RoutesByArgumentCount ==
    (pc = "exited" /\ exitCode = 0) =>
        LET cr == [op |-> "clipboard.read", path |-> << >>]
            cw == [op |-> "clipboard.write", path |-> << >>]
            pr == [op |-> "prompt", path |-> << >>]
            rd(f) == [op |-> "readFile", path |-> f]
            wr(f) == [op |-> "writeFile", path |-> f]
        IN  /\ ArgCount = 0 =>
                  /\ \/ io = << cr, cw >> /\ LooksLikeHtml(html)
                     \/ io = << cr, pr, rd(trim(answer)), cw >> /\ html = InitialFiles[trim(answer)]
                  /\ clipboard = compressedHtml
                  /\ files = InitialFiles
            /\ ArgCount = 1 =>
                  /\ io = << rd(argv[3]), cw >>
                  /\ html = InitialFiles[argv[3]]
                  /\ clipboard = compressedHtml
                  /\ files = InitialFiles
            /\ ArgCount = 2 =>
                  /\ io = << rd(argv[3]), wr(argv[4]) >>
                  /\ html = InitialFiles[argv[3]]
                  /\ argv[4] \in DOMAIN files
                  /\ files[argv[4]] = compressedHtml
                  /\ \A p \in DOMAIN InitialFiles \ {argv[4]} : files[p] = InitialFiles[p]

\* ------------------------------------------------------------------------
\* The badge list of a marker
\* ------------------------------------------------------------------------

\* The badge strings of the members of the partition of children[i]
BadgesOfPartition(i) == UNION { BadgeSet(children[j]) : j \in Partition(i) }

\* The first member of the partition of children[i] that carries badge b
FirstMemberWith(i, b) == Min({ j \in Partition(i) : b \in BadgeSet(children[j]) })

\* The badge strings a marker lists, in the order listed
Listed(m) == [ v \in DOMAIN markers[m].variations |-> markers[m].variations[v].badge ]

\* The list of marker m names no badge twice, does not name the sentinel, and
\* names the badges in the order in which the members were read (the badges
\* of one member in sorted order).
ListedInOrder(i, m) ==
    /\ \A u, v \in DOMAIN Listed(m) :
          u < v =>
              \/ FirstMemberWith(i, Listed(m)[u]) < FirstMemberWith(i, Listed(m)[v])
              \/ /\ FirstMemberWith(i, Listed(m)[u]) = FirstMemberWith(i, Listed(m)[v])
                 /\ StrLess(Listed(m)[u], Listed(m)[v])
    /\ NoneKey \notin Range(Listed(m))
    /\ Range(Listed(m)) \subseteq BadgesOfPartition(i)

\* C12 as stated: a marker lists badges only if two or more distinct badge
\* strings occur in its partition, and then without the sentinel and in the
\* order of first occurrence.
C12_ListOnlyFromTwoBadges ==
    Evaluated =>
        \A i \in DOMAIN children :
            \A m \in MarkersOf(i) :
                Len(Listed(m)) > 0 =>
                    /\ Cardinality(BadgesOfPartition(i)) >= 2
                    /\ ListedInOrder(i, m)

\* C12 as amended: a marker lists badges exactly when a badge string other
\* than "(none)" occurs in its partition, one is enough; the list names
\* each such string once, in the order of first occurrence.
C12_ListFromOneBadge ==
    Evaluated =>
        \A i \in DOMAIN children :
            \A m \in MarkersOf(i) :
                /\ (Len(Listed(m)) > 0) <=> (BadgesOfPartition(i) \ {NoneKey} # {})
                /\ Range(Listed(m)) = BadgesOfPartition(i) \ {NoneKey}
                /\ ListedInOrder(i, m)

\* A marker lists the only badge string of its partition, which some members
\* carry and others do not.
C12_Witness ==
    /\ Evaluated
    /\ \E i \in DOMAIN children :
          \E m \in MarkersOf(i) :
              /\ Len(Listed(m)) = 1
              /\ Cardinality(BadgesOfPartition(i)) = 1
              /\ \E j \in Partition(i) : BadgeSet(children[j]) = {}

\* ------------------------------------------------------------------------
\* Removed subtrees during the traversal
\* ------------------------------------------------------------------------

\* C13 as stated: no container is evaluated after it, or an ancestor of it,
\* was removed from the document.
C13_NoEvaluationInRemovedSubtree == \A v \in visited : v.attached

\* One step of the traversal: what is done for a container that is no longer
\* in the document changes no child list of an element that is in it; the
\* containers are taken in the order of the selection, each once; and when
\* the traversal ends every element with minRepeatCount or more element
\* children has been evaluated, in the document or not.
RemovedSubtreesStep ==
    /\ (pc \in {"groups", "remove"} /\ ~Attached(Container)) =>
          \A n \in Elements : Attached(n) => childNodes'[n] = childNodes[n]
    /\ (pc = "each" /\ pc' = "groups") => idx' > idx
    /\ (pc = "each" /\ pc' = "cleanup") =>
          \A n \in Elements :
              Len(ElementChildren(n)) >= minRepeatCount =>
                  \E v \in visited : v.pass = pass /\ v.el = n

\* C13 as amended: removed subtrees are still traversed (the selection is
\* taken once, before any removal), every selected element with enough
\* children is evaluated exactly once whether or not it is still in the
\* document, and the markers and removals made inside a removed subtree leave
\* the document itself unchanged.
C13_RemovedSubtreesEvaluatedHarmlessly == [][RemovedSubtreesStep]_vars

\* The traversal has ended after it evaluated a container that had been
\* removed, put a marker in it and removed children of it.
C13_Witness ==
    /\ pc = "cleanup"
    /\ \E v \in visited :
          /\ ~v.attached
          /\ \E m \in DOMAIN markers : markers[m].container = v.el
          /\ \E r \in removed :
                \A k \in DOMAIN childNodes[v.el] : childNodes[v.el][k].id # r[2]

\* ------------------------------------------------------------------------
\* Decision before removal
\* ------------------------------------------------------------------------

\* The element entries of a child list
TagsOf(list) == SelectSeq(list, LAMBDA e : e.type = "tag")

\* One step of deduplicateRepeatedStructures. The step that extracts the
\* badges of a group removes nothing and leaves every member with its key in
\* elementsByBadges and the first of each key in keptElements; the step that
\* removes members removes exactly the members outside keptElements, with
\* elementsByBadges and keptElements as the earlier step left them; no other
\* step of the traversal takes an element out of a child list.
DecideThenRemoveStep ==
    /\ (pc = "groups" /\ pc' = "remove") =>
          LET elements == structuralGroups[gidx'].elements
          IN  /\ removed' = removed
              /\ \A p \in Elements : TagsOf(childNodes'[p]) = TagsOf(childNodes[p])
              /\ \A i \in DOMAIN elements :
                    \E k \in DOMAIN elementsByBadges' :
                        /\ elementsByBadges'[k].key = BadgeKey(elements[i])
                        /\ elements[i] \in Range(elementsByBadges'[k].elements)
              /\ keptElements' =
                    { elementsByBadges'[k].elements[1] : k \in DOMAIN elementsByBadges' }
    /\ (pc = "remove") =>
          LET elements == structuralGroups[gidx].elements
          IN  /\ removed' \ removed = { << pass, e >> : e \in Range(elements) \ keptElements }
              /\ \A p \in Elements :
                    TagsOf(childNodes'[p]) =
                        SelectSeq(TagsOf(childNodes[p]),
                                  LAMBDA e : e.id \notin Range(elements) \ keptElements)
              /\ UNCHANGED << elementsByBadges, keptElements >>
    /\ (pc \in {"dedup", "each", "groups"}) =>
          \A p \in Elements : TagsOf(childNodes'[p]) = TagsOf(childNodes[p])

\* C14: the badge key of every member of a qualifying partition and the set
\* of members to remove are complete before any member is removed.
C14_DecisionBeforeRemoval == [][DecideThenRemoveStep]_vars

\* The keys of a group with two badge keys are complete, two or more members
\* are about to be removed, and all members are still children.
C14_Witness ==
    /\ pc = "remove"
    /\ Len(elementsByBadges) >= 2
    /\ LET elements == structuralGroups[gidx].elements
       IN  /\ Cardinality(Range(elements) \ keptElements) >= 2
           /\ \A i \in DOMAIN elements : StillChild(elements[i], Container)

\* ------------------------------------------------------------------------
\* The badge key
\* ------------------------------------------------------------------------

\* C15: once a container is evaluated, two members of a partition of size >=
\* minRepeatCount have the same badge key exactly when they have the same
\* badge strings, and a member has the key "(none)" only when it has no
\* badge string.
C15_BadgeKeyCanonical ==
    Evaluated =>
        \A i \in DOMAIN children :
            Cardinality(Partition(i)) >= minRepeatCount =>
                /\ \A j \in Partition(i) :
                      (BadgeKey(children[i]) = BadgeKey(children[j]))
                          <=> (BadgeSet(children[i]) = BadgeSet(children[j]))
                /\ (BadgeKey(children[i]) = NoneKey) => (BadgeSet(children[i]) = {})

\* ------------------------------------------------------------------------
\* Hash-like sequences and word-likeness
\* ------------------------------------------------------------------------

\* name contains n letters in a row immediately followed by 3 digits
LettersThenDigits(name, n) ==
    \E i \in 1..(Len(name) - n - 2) :
        /\ \A j \in i..(i + n - 1) : name[j] \in LetterChars
        /\ \A j \in (i + n)..(i + n + 2) : name[j] \in DigitChars

\* name contains 8 characters in a row that are digits or letters a to f
HexRunOfEight(name) ==
    \E i \in 1..(Len(name) - 7) : \A j \in i..(i + 7) : name[j] \in HexChars

\* C16 as stated: an identifier that is not on the allow-list and contains a
\* letter immediately followed by 3 digits (a run of letters of any length),
\* or 8 hex characters in a row, is classified as generated.
C16_AnyLetterRunGenerated ==
    (pc = "classified" /\ ~IsSafeWord(identifier)) =>
        ((LettersThenDigits(identifier, 1) \/ HexRunOfEight(identifier))
            => verdict = "generated")

\* C16 as amended: an identifier that is not on the allow-list and contains
\* 2 or more letters in a row immediately followed by 3 digits, or 8 hex
\* characters in a row, is classified as generated.
C16_TwoLetterRunGenerated ==
    (pc = "classified" /\ ~IsSafeWord(identifier)) =>
        ((LettersThenDigits(identifier, 2) \/ HexRunOfEight(identifier))
            => verdict = "generated")

\* "my-ab123" was classified as generated, and no rule before the sixth
\* matches it.
C16_Witness ==
    /\ pc = "classified"
    /\ identifier = <<"m","y","-","a","b","1","2","3">>
    /\ verdict = "generated"
    /\ ~MatchesFramework(identifier)
    /\ ~HashSuffix(identifier)
    /\ ~PrefixNumbers(identifier)
    /\ ~NumericOrLetterDigits(identifier)
    /\ ~TooManySegments(identifier)

\* C17: isWordLike returns true exactly when the segment has 2 or more
\* characters, no more digits than letters, a vowel (a, e, i, o, u or y), no
\* character 3 times in a row and no 4 consonants in a row; "button" is
\* word-like and "xyzzqq" is not.
C17_WordLikeFiveConditions ==
    pc = "wordlike" =>
        /\ (verdict = "wordlike") <=>
              /\ Len(identifier) >= 2
              /\ Cardinality({ i \in DOMAIN identifier : identifier[i] \in DigitChars })
                    <= Cardinality({ i \in DOMAIN identifier : identifier[i] \in LetterChars })
              /\ \E i \in DOMAIN identifier :
                    ToLowerChar(identifier[i]) \in {"a", "e", "i", "o", "u", "y"}
              /\ ~\E i \in DOMAIN identifier :
                    /\ i + 2 <= Len(identifier)
                    /\ identifier[i] = identifier[i + 1]
                    /\ identifier[i] = identifier[i + 2]
              /\ ~\E i \in DOMAIN identifier :
                    /\ i + 3 <= Len(identifier)
                    /\ \A j \in i..(i + 3) :
                          /\ identifier[j] \in LetterChars
                          /\ ToLowerChar(identifier[j]) \notin {"a", "e", "i", "o", "u", "y"}
        /\ identifier = <<"b","u","t","t","o","n">> => verdict = "wordlike"
        /\ identifier = <<"x","y","z","z","q","q">> => verdict = "notwordlike"

\* "xyzzqq" was found not word-like; it has 6 characters, no digit, the
\* vowel y and no character 3 times in a row.
C17_Witness ==
    /\ pc = "wordlike"
    /\ identifier = <<"x","y","z","z","q","q">>
    /\ verdict = "notwordlike"

\* ------------------------------------------------------------------------
\* The empty-element cleanup loop
\* ------------------------------------------------------------------------

MaxShells == 3

sShape == <<"y","t","-","t","o","u","c","h","-","f","e","e","d","b","a","c","k","-","s","h","a","p","e">>

ShellKinds == {"empty", "nest2", "nest3", "styled", "blank", "word", "item", "classed"}

\* Elements that are or become empty, and elements that stay
Shell(k) ==
    CASE k = "empty"   -> El(sDiv, NoAttribs, << >>)
      [] k = "nest2"   -> El(sSpan, NoAttribs, << El(sSpan, NoAttribs, << >>) >>)
      [] k = "nest3"   -> El(sDiv, NoAttribs,
                             << Tx(<<"\n">>),
                                El(sSpan, NoAttribs, << El(sShape, NoAttribs, << >>) >>) >>)
      [] k = "styled"  -> El(sDiv, [style |-> <<"x">>], << El(sSpan, [id |-> <<"e","m","b","e","r","1","2","3","4">>], << >>) >>)
      [] k = "blank"   -> El(sSpan, NoAttribs, << Tx(<<" ", "\n", "\t">>) >>)
      [] k = "word"    -> El(sSpan, NoAttribs, << Tx(sNew) >>)
      [] k = "item"    -> El(sDiv, NoAttribs, << PlainItem >>)
      [] k = "classed" -> El(sDiv, ItemClass, << >>)

ShellLists == UNION { [1..n -> ShellKinds] : n \in 1..MaxShells }

InitCleanup ==
    /\ \E kinds \in ShellLists :
          Loaded(El(sBody, NoAttribs, [ i \in DOMAIN kinds |-> Shell(kinds[i]) ]))
    /\ pc = "filter"
    /\ IdleDedup
    /\ IdleClassify
    /\ IdleRun

\* The loop is synchronous code inside one call of compress: once it is
\* entered, the next iteration, or the exit, is always taken.
SpecCleanup == InitCleanup /\ [][Next]_vars /\ WF_vars(CleanupPass) /\ WF_vars(Finish)

\* The div, span and yt-touch-feedback-shape elements in the document that
\* have no attribute, no element child and only whitespace as text
EmptyLeft ==
    { n \in Elements :
        /\ Attached(n)
        /\ tagName[n] \in { sDiv, sSpan, sShape }
        /\ DOMAIN attribs[n] = {}
        /\ \A k \in DOMAIN childNodes[n] :
              /\ childNodes[n][k].type # "tag"
              /\ childNodes[n][k].type = "text" =>
                    \A c \in DOMAIN childNodes[n][k].data :
                        childNodes[n][k].data[c] \in WhitespaceChars }

\* C18: once the cleanup loop is entered it exits, and when it has exited no
\* empty div, span or yt-touch-feedback-shape element is left in the
\* document.
C18_CleanupTerminatesClean ==
    /\ (pc = "cleanup") ~> (pc = "done")
    /\ [](pc = "done" => EmptyLeft = {})

\* compress has returned after the loop took a div, the span in it and the
\* yt-touch-feedback-shape in the span out of the document, one per pass.
C18_Witness ==
    /\ pc = "done"
    /\ ~changed
    /\ \E n \in Elements :
          /\ n > 3
          /\ tagName[n] = sShape
          /\ tagName[n - 1] = sSpan
          /\ tagName[n - 2] = sDiv
          /\ \A t \in {n - 2, n - 1, n} : ~HasParent(t) /\ \A r \in removed : r[2] # t

\* ------------------------------------------------------------------------
\* What deduplicateRepeatedStructures leaves alone
\* ------------------------------------------------------------------------

\* The element ids among the entries of a list of child nodes, in order
ElementIds(list) ==
    LET tags == SelectSeq(list, LAMBDA e : e.type = "tag")
    IN  [ i \in DOMAIN tags |-> tags[i].id ]

\* The element children p had when the call began that are in a partition of
\* at least minRepeatCount children with one signature and come after
\* another member of it with the same badge key
Deletable(p) ==
    LET kids == ElementIds(before[p].childNodes)
        same(i, j) == before[kids[i]].signature = before[kids[j]].signature
    IN  { kids[j] : j \in { j \in DOMAIN kids :
            /\ Cardinality({ i \in DOMAIN kids : same(i, j) }) >= minRepeatCount
            /\ \E i \in 1..(j - 1) :
                  /\ same(i, j)
                  /\ before[kids[i]].badgeKey = before[kids[j]].badgeKey } }

\* a can be had from b by leaving entries of b out
RECURSIVE IsSubsequence(_, _)
IsSubsequence(a, b) ==
    IF Len(a) = 0 THEN TRUE
    ELSE IF Len(b) = 0 THEN FALSE
    ELSE IF Head(a) = Head(b) THEN IsSubsequence(Tail(a), Tail(b))
    ELSE IsSubsequence(a, Tail(b))

\* The entries of a list of child nodes that are not deleted elements
Surviving(list, p) ==
    SelectSeq(list, LAMBDA e : ~(e.type = "tag" /\ e.id \in Deletable(p)))

InDedup == pc \in {"each", "groups", "remove"}

\* C19: while deduplicateRepeatedStructures runs and when it has returned,
\* every element has, of the child nodes it had when the call began, all
\* but element children that are later members with an already seen badge
\* key of a partition of at least minRepeatCount children, in their former
\* order; its element children are element children it had before, in their
\* former order; and the nodes that were added are comments and line breaks.
C19_OnlyRepeatedMembersDeleted ==
    InDedup =>
        \A p \in Elements :
            /\ IsSubsequence(Surviving(before[p].childNodes, p), childNodes[p])
            /\ IsSubsequence(ElementChildren(p), ElementIds(before[p].childNodes))
            /\ \A k \in DOMAIN childNodes[p] :
                  \/ childNodes[p][k] \in Range(before[p].childNodes)
                  \/ childNodes[p][k].type = "comment"
                  \/ childNodes[p][k] = TextEntry(<<"\n">>)

\* The call has returned: a container lost children, and kept, after the
\* marker, a first member of its partition and a child of another,
\* smaller, partition.
C19_Witness ==
    /\ pc = "each"
    /\ Candidates = {}
    /\ \E p \in Elements :
          LET old == ElementIds(before[p].childNodes)
              now == ElementChildren(p)
          IN  /\ Range(old) \ Range(now) # {}
              /\ \E c, d \in Range(now) :
                    /\ before[c].signature # before[d].signature
                    /\ \E r \in Range(old) \ Range(now) :
                          /\ before[r].signature = before[c].signature
                          /\ r > c
                    /\ \A r \in Range(old) \ Range(now) :
                          before[r].signature # before[d].signature

====
